---- MODULE Spec2Model ----
(***************************************************************************)
(* Payroll report generator (san.py): the CSV row parser, the loader that  *)
(* concatenates the records of several files, and the six report           *)
(* strategies with their rate resolution.                                  *)
(*                                                                         *)
(* A text is a sequence of one-character strings.  A record (a Python      *)
(* dict) is a function from its keys to its values.                        *)
(***************************************************************************)
EXTENDS Integers, Sequences, FiniteSets, TLC

VARIABLES
  pc,         \* position of the process in main()
  files,      \* contents of the files named on the command line, in order
  fileIdx,    \* number of files load_employees has consumed
  employees,  \* the list load_employees builds, later handed to generate
  order,      \* iteration order of the PAY_RATE_KEYS sets in this process
  report,     \* name of the report that ran last
  result,     \* what its generate returned
  idx,        \* rows consumed by the loop of a top report run row by row
  max_val,    \* its max_payout / max_rate: <<>> for None, else <<number>>
  top_row,    \* its top_row: <<>> for None, else <<row>>
  last        \* <<>>, or <<the report and result of the run before this one>>

vars == <<pc, files, fileIdx, employees, order, report, result, idx, max_val, top_row, last>>

loadVars == <<pc, files, fileIdx, employees>>

runVars == <<order, report, result, idx, max_val, top_row, last>>

(***************************************************************************)
(* Bounds of the model.                                                    *)
(***************************************************************************)
MaxTextLen == 7

MaxFiles == 2

MaxRecords == 2

MaxAliasRecords == 2

MaxTopRecords == 2

(***************************************************************************)
(* Characters and Python's str methods, as parse_csv uses them.            *)
(***************************************************************************)
NL == "\n"

Alphabet == {"a", ",", " ", NL}

IsSpace(c) == c \in {" ", NL}

\* Position of the first occurrence of c in s, 0 when there is none.
Find(s, c) ==
  IF \E p \in 1..Len(s) : s[p] = c
  THEN CHOOSE p \in 1..Len(s) : s[p] = c /\ \A q \in 1..(p - 1) : s[q] # c
  ELSE 0

RECURSIVE splitlines(_)
\* str.splitlines(): the line break ends a line, so a text that ends with one
\* has no empty last line, and the empty text has no line at all.
splitlines(s) ==
  IF s = <<>> THEN <<>>
  ELSE LET k == Find(s, NL)
       IN IF k = 0 THEN <<s>>
          ELSE <<SubSeq(s, 1, k - 1)>> \o splitlines(SubSeq(s, k + 1, Len(s)))

RECURSIVE split(_)
\* str.split(","): always at least one field, the empty text gives [""].
split(s) ==
  LET k == Find(s, ",")
  IN IF k = 0 THEN <<s>>
     ELSE <<SubSeq(s, 1, k - 1)>> \o split(SubSeq(s, k + 1, Len(s)))

RECURSIVE lstrip(_)
lstrip(s) ==
  IF s # <<>> /\ IsSpace(Head(s)) THEN lstrip(Tail(s)) ELSE s

RECURSIVE rstrip(_)
rstrip(s) ==
  IF s # <<>> /\ IsSpace(s[Len(s)]) THEN rstrip(SubSeq(s, 1, Len(s) - 1)) ELSE s

\* str.strip()
strip(s) == rstrip(lstrip(s))

\* [x.strip() for x in line.split(",")]
strip_fields(line) ==
  LET f == split(line) IN [j \in 1..Len(f) |-> strip(f[j])]

(***************************************************************************)
(* Python dicts.                                                           *)
(***************************************************************************)
EmptyDict == [k \in {} |-> k]

\* d[k] = x
DictSet(d, k, x) ==
  [y \in (DOMAIN d) \cup {k} |-> IF y = k THEN x ELSE d[y]]

RECURSIVE zip_into(_, _, _, _)
\* dict(zip(headers, values)) from pair j on: pairs are stored left to right,
\* so a later pair with the same key replaces the earlier one.
zip_into(d, headers, values, j) ==
  IF j > Len(headers) \/ j > Len(values) THEN d
  ELSE zip_into(DictSet(d, headers[j], values[j]), headers, values, j + 1)

dict_zip(headers, values) == zip_into(EmptyDict, headers, values, 1)

(***************************************************************************)
(* parse_csv                                                               *)
(***************************************************************************)
\* parse_line without the test of the field count: zip pairs as many fields as
\* both lists hold.
parse_line_any_count(headers, data, line) ==
  IF strip(line) = <<>> THEN data
  ELSE Append(data, dict_zip(headers, strip_fields(line)))

\* One pass of the loop over lines[1:]: the data list after `line`.
parse_line(headers, data, line) ==
  IF strip(line) = <<>> THEN data
  ELSE LET values == strip_fields(line)
       IN IF Len(values) # Len(headers) THEN data
          ELSE Append(data, dict_zip(headers, values))

RECURSIVE parse_lines(_, _, _)
parse_lines(headers, data, rest) ==
  IF rest = <<>> THEN data
  ELSE parse_lines(headers, parse_line(headers, data, Head(rest)), Tail(rest))

parse_csv(text) ==
  LET lines == splitlines(text)
  IN IF lines = <<>> THEN <<>>
     ELSE parse_lines(strip_fields(lines[1]), <<>>, Tail(lines))

(***************************************************************************)
(* load_employees                                                          *)
(***************************************************************************)
\* extend_employees putting the new records first.
extend_employees_front(emps, text) == parse_csv(text) \o emps

\* employees.extend(parse_csv(f))
extend_employees(emps, text) == emps \o parse_csv(text)

\* One pass of the loop over filepaths.
LoadFile ==
  /\ pc = "load"
  /\ fileIdx < Len(files)
  /\ employees' = extend_employees(employees, files[fileIdx + 1])
  /\ fileIdx' = fileIdx + 1
  /\ UNCHANGED <<pc, files, runVars>>

\* return employees
LoadReturn ==
  /\ pc = "load"
  /\ fileIdx = Len(files)
  /\ pc' = "loaded"
  /\ UNCHANGED <<files, fileIdx, employees, runVars>>

(***************************************************************************)
(* Values.  None and a caught ValueError are the empty sequence and a      *)
(* value v that is there is <<v>>.  A float is a record: nan says whether  *)
(* it is NaN, num is its (integer) value otherwise.                        *)
(***************************************************************************)
None == <<>>

Some(v) == <<v>>

F(n) == [nan |-> FALSE, num |-> n]

NaN == [nan |-> TRUE, num |-> 0]

\* a * b
FMul(a, b) == IF a.nan \/ b.nan THEN NaN ELSE F(a.num * b.num)

\* a + b
FAdd(a, b) == IF a.nan \/ b.nan THEN NaN ELSE F(a.num + b.num)

\* a > b: every comparison with NaN is false.
FGt(a, b) == ~a.nan /\ ~b.nan /\ a.num > b.num

\* a >= b
FGe(a, b) == ~a.nan /\ ~b.nan /\ a.num >= b.num

RECURSIVE Gcd(_, _)
Gcd(a, b) == IF b = 0 THEN a ELSE Gcd(b, a % b)

\* The marker of a division by zero (Python raises ZeroDivisionError).
ZeroDivisionError == [nan |-> TRUE, num |-> 0, den |-> 0]

\* a / n for a float a and an int n: the quotient in lowest terms.
FDiv(a, n) ==
  IF n = 0 THEN ZeroDivisionError
  ELSE IF a.nan THEN [nan |-> TRUE, num |-> 0, den |-> 1]
  ELSE LET g == Gcd(a.num, n)
       IN [nan |-> FALSE, num |-> a.num \div g, den |-> n \div g]

Digits == <<"0", "1", "2", "3", "4", "5", "6", "7", "8", "9">>

IsDigit(c) == \E d \in 1..10 : Digits[d] = c

DigitVal(c) == (CHOOSE d \in 1..10 : Digits[d] = c) - 1

RECURSIVE DecValue(_)
DecValue(s) ==
  IF s = <<>> THEN 0
  ELSE 10 * DecValue(SubSeq(s, 1, Len(s) - 1)) + DigitVal(s[Len(s)])

\* float(s) inside try/except ValueError: blanks around the number are
\* ignored, a run of digits is its decimal value, "nan" is NaN, and any other
\* text of the alphabets used here raises ValueError (None).
float(s) ==
  LET t == strip(s)
  IN IF t = <<"n", "a", "n">> THEN Some(NaN)
     ELSE IF t # <<>> /\ \A p \in 1..Len(t) : IsDigit(t[p]) THEN Some(F(DecValue(t)))
     ELSE None

(***************************************************************************)
(* Column names.                                                           *)
(***************************************************************************)
ID == <<"i", "d">>

NAME == <<"n", "a", "m", "e">>

DEPARTMENT == <<"d", "e", "p", "a", "r", "t", "m", "e", "n", "t">>

HOURS_WORKED == <<"h", "o", "u", "r", "s", "_", "w", "o", "r", "k", "e", "d">>

HOURLY_RATE == <<"h", "o", "u", "r", "l", "y", "_", "r", "a", "t", "e">>

RATE == <<"r", "a", "t", "e">>

SALARY == <<"s", "a", "l", "a", "r", "y">>

UNKNOWN == <<"u", "n", "k", "n", "o", "w", "n">>

\* PAY_RATE_KEYS = {"hourly_rate", "rate", "salary"}
PAY_RATE_KEYS == {HOURLY_RATE, RATE, SALARY}

\* The orders in which a process may iterate the set: the order follows the
\* strings' hashes, which are seeded anew for every process.
Orders ==
  {o \in [1..Cardinality(PAY_RATE_KEYS) -> PAY_RATE_KEYS] :
     \A p, q \in DOMAIN o : p # q => o[p] # o[q]}

\* row.get(key, default)
Get(row, key, default) == IF key \in DOMAIN row THEN row[key] ELSE default

\* row.get(key)
GetOpt(row, key) == IF key \in DOMAIN row THEN Some(row[key]) ELSE None

(***************************************************************************)
(* Insertion-ordered dicts of the aggregates: a sequence of [key, val].    *)
(***************************************************************************)
HasKey(d, k) == \E p \in 1..Len(d) : d[p].key = k

Lookup(d, k, default) ==
  IF HasKey(d, k) THEN d[CHOOSE p \in 1..Len(d) : d[p].key = k].val ELSE default

\* d[k] = v: a new key goes last, a known key keeps its place.
Store(d, k, v) ==
  IF HasKey(d, k)
  THEN [p \in 1..Len(d) |-> IF d[p].key = k THEN [key |-> k, val |-> v] ELSE d[p]]
  ELSE Append(d, [key |-> k, val |-> v])

(***************************************************************************)
(* Rate resolution: the five get_pay_rate methods.  Two of them give up at *)
(* the first alias column whose value is no number, three go on to the     *)
(* next alias.                                                             *)
(***************************************************************************)
RECURSIVE scan_return(_, _, _)
\* for key in PAY_RATE_KEYS: ... except ValueError: return None
scan_return(row, keys, k) ==
  IF k > Len(keys) THEN None
  ELSE IF keys[k] \in DOMAIN row THEN float(row[keys[k]])
  ELSE scan_return(row, keys, k + 1)

RECURSIVE scan_continue(_, _, _)
\* for key in PAY_RATE_KEYS: ... except ValueError: continue
scan_continue(row, keys, k) ==
  IF k > Len(keys) THEN None
  ELSE IF keys[k] \in DOMAIN row /\ float(row[keys[k]]) # None
       THEN float(row[keys[k]])
  ELSE scan_continue(row, keys, k + 1)

PayoutReport_get_pay_rate(row) == scan_return(row, order, 1)

AvgHourlyRateByDepartmentReport_get_pay_rate(row) == scan_return(row, order, 1)

TopPayoutReport_get_pay_rate(row) == scan_continue(row, order, 1)

TopRateReport_get_pay_rate(row) == scan_continue(row, order, 1)

TotalPayoutByDepartmentReport_get_pay_rate(row) == scan_continue(row, order, 1)

(***************************************************************************)
(* PayoutReport.generate                                                   *)
(***************************************************************************)
\* PayoutReport_row with hours 1, not 0, when hours_worked is absent.
PayoutReport_row_hours_one(results, row) ==
  LET hours == float(Get(row, HOURS_WORKED, <<"1">>))
      rate == PayoutReport_get_pay_rate(row)
  IN IF hours = None THEN results
     ELSE IF rate = None THEN results
     ELSE Append(results,
                 [id |-> GetOpt(row, ID),
                  name |-> GetOpt(row, NAME),
                  department |-> GetOpt(row, DEPARTMENT),
                  hours_worked |-> hours[1],
                  rate |-> rate[1],
                  payout |-> FMul(hours[1], rate[1])])

\* One pass of the loop over data.
PayoutReport_row(results, row) ==
  LET hours == float(Get(row, HOURS_WORKED, <<"0">>))
      rate == PayoutReport_get_pay_rate(row)
  IN IF hours = None THEN results
     ELSE IF rate = None THEN results
     ELSE Append(results,
                 [id |-> GetOpt(row, ID),
                  name |-> GetOpt(row, NAME),
                  department |-> GetOpt(row, DEPARTMENT),
                  hours_worked |-> hours[1],
                  rate |-> rate[1],
                  payout |-> FMul(hours[1], rate[1])])

RECURSIVE PayoutReport_loop(_, _)
PayoutReport_loop(results, data) ==
  IF data = <<>> THEN results
  ELSE PayoutReport_loop(PayoutReport_row(results, Head(data)), Tail(data))

PayoutReport_generate(data) == [payouts |-> PayoutReport_loop(<<>>, data)]

(***************************************************************************)
(* AvgHourlyRateByDepartmentReport.generate                                *)
(***************************************************************************)
\* AvgHourlyRate_row counting the row before its rate is resolved.
AvgHourlyRate_row_counts_all(acc, row) ==
  LET department == Get(row, DEPARTMENT, UNKNOWN)
      rate == AvgHourlyRateByDepartmentReport_get_pay_rate(row)
      counts == Store(acc.dep_counts, department,
                      Lookup(acc.dep_counts, department, 0) + 1)
  IN IF rate = None THEN [dep_rates |-> acc.dep_rates, dep_counts |-> counts]
     ELSE [dep_rates |->
             Store(acc.dep_rates, department,
                   FAdd(Lookup(acc.dep_rates, department, F(0)), rate[1])),
           dep_counts |-> counts]

\* One pass of the first loop: acc holds dep_rates and dep_counts.
AvgHourlyRate_row(acc, row) ==
  LET department == Get(row, DEPARTMENT, UNKNOWN)
      rate == AvgHourlyRateByDepartmentReport_get_pay_rate(row)
  IN IF rate = None THEN acc
     ELSE [dep_rates |->
             Store(acc.dep_rates, department,
                   FAdd(Lookup(acc.dep_rates, department, F(0)), rate[1])),
           dep_counts |->
             Store(acc.dep_counts, department,
                   Lookup(acc.dep_counts, department, 0) + 1)]

RECURSIVE AvgHourlyRate_loop(_, _)
AvgHourlyRate_loop(acc, data) ==
  IF data = <<>> THEN acc
  ELSE AvgHourlyRate_loop(AvgHourlyRate_row(acc, Head(data)), Tail(data))

\* The second loop: one entry per key of dep_rates, in the dict's order.
AvgHourlyRate_entries(acc) ==
  [p \in 1..Len(acc.dep_rates) |->
     LET department == acc.dep_rates[p].key
     IN [department |-> department,
         average_rate |-> FDiv(acc.dep_rates[p].val,
                               Lookup(acc.dep_counts, department, 0)),
         employees |-> Lookup(acc.dep_counts, department, 0)]]

AvgHourlyRateByDepartmentReport_generate(data) ==
  [average_hourly_rate_by_department |->
     AvgHourlyRate_entries(
       AvgHourlyRate_loop([dep_rates |-> <<>>, dep_counts |-> <<>>], data))]

(***************************************************************************)
(* CountByDepartmentReport.generate                                        *)
(***************************************************************************)
\* CountByDepartment_row with row.get("department") or "unknown": the empty
\* department counts as unknown too.
CountByDepartment_row_or_unknown(counts, row) ==
  LET department == IF Get(row, DEPARTMENT, <<>>) = <<>> THEN UNKNOWN
                    ELSE row[DEPARTMENT]
  IN Store(counts, department, Lookup(counts, department, 0) + 1)

\* One pass of the loop over data.
CountByDepartment_row(counts, row) ==
  LET department == Get(row, DEPARTMENT, UNKNOWN)
  IN Store(counts, department, Lookup(counts, department, 0) + 1)

RECURSIVE CountByDepartment_loop(_, _)
CountByDepartment_loop(counts, data) ==
  IF data = <<>> THEN counts
  ELSE CountByDepartment_loop(CountByDepartment_row(counts, Head(data)), Tail(data))

CountByDepartmentReport_generate(data) ==
  [count_by_department |-> CountByDepartment_loop(<<>>, data)]

(***************************************************************************)
(* TopPayoutReport.generate                                                *)
(***************************************************************************)
\* TopPayoutReport_row with >= for >: a later row of equal payout takes over.
TopPayoutReport_row_later_wins(st, row) ==
  LET hours == float(Get(row, HOURS_WORKED, <<"0">>))
      rate == TopPayoutReport_get_pay_rate(row)
  IN IF hours = None THEN st
     ELSE IF rate = None THEN st
     ELSE LET payout == FMul(hours[1], rate[1])
          IN IF st.max_payout = None \/ FGe(payout, st.max_payout[1])
             THEN [max_payout |-> Some(payout), top_row |-> Some(row)]
             ELSE st

\* One pass of the loop: st holds max_payout and top_row.
TopPayoutReport_row(st, row) ==
  LET hours == float(Get(row, HOURS_WORKED, <<"0">>))
      rate == TopPayoutReport_get_pay_rate(row)
  IN IF hours = None THEN st
     ELSE IF rate = None THEN st
     ELSE LET payout == FMul(hours[1], rate[1])
          IN IF st.max_payout = None \/ FGt(payout, st.max_payout[1])
             THEN [max_payout |-> Some(payout), top_row |-> Some(row)]
             ELSE st

RECURSIVE TopPayoutReport_loop(_, _)
TopPayoutReport_loop(st, data) ==
  IF data = <<>> THEN st
  ELSE TopPayoutReport_loop(TopPayoutReport_row(st, Head(data)), Tail(data))

\* TopPayoutReport_return without the else branch: an entry even when no row
\* qualified.
TopPayoutReport_return_always_entry(st) ==
  [top_payout |->
     Some([name |-> IF st.top_row = None THEN None ELSE GetOpt(st.top_row[1], NAME),
           department |->
             IF st.top_row = None THEN None ELSE GetOpt(st.top_row[1], DEPARTMENT),
           payout |-> st.max_payout])]

\* if top_row: an empty dict is as false as None.
TopPayoutReport_return(st) ==
  IF st.top_row # None /\ DOMAIN st.top_row[1] # {}
  THEN [top_payout |-> Some([name |-> GetOpt(st.top_row[1], NAME),
                             department |-> GetOpt(st.top_row[1], DEPARTMENT),
                             payout |-> st.max_payout[1]])]
  ELSE [top_payout |-> None]

TopPayoutReport_generate(data) ==
  TopPayoutReport_return(
    TopPayoutReport_loop([max_payout |-> None, top_row |-> None], data))

(***************************************************************************)
(* TopRateReport.generate                                                  *)
(***************************************************************************)
\* One pass of the loop: st holds max_rate and top_row.
TopRateReport_row(st, row) ==
  LET rate == TopRateReport_get_pay_rate(row)
  IN IF rate = None THEN st
     ELSE IF st.max_rate = None \/ FGt(rate[1], st.max_rate[1])
          THEN [max_rate |-> rate, top_row |-> Some(row)]
          ELSE st

RECURSIVE TopRateReport_loop(_, _)
TopRateReport_loop(st, data) ==
  IF data = <<>> THEN st
  ELSE TopRateReport_loop(TopRateReport_row(st, Head(data)), Tail(data))

TopRateReport_return(st) ==
  IF st.top_row # None /\ DOMAIN st.top_row[1] # {}
  THEN [top_rate |-> Some([name |-> GetOpt(st.top_row[1], NAME),
                           department |-> GetOpt(st.top_row[1], DEPARTMENT),
                           rate |-> st.max_rate[1]])]
  ELSE [top_rate |-> None]

TopRateReport_generate(data) ==
  TopRateReport_return(
    TopRateReport_loop([max_rate |-> None, top_row |-> None], data))

(***************************************************************************)
(* TotalPayoutByDepartmentReport.generate                                  *)
(***************************************************************************)
\* TotalPayout_row taking hours that are no number as 0.
TotalPayout_row_bad_hours_zero(payouts, row) ==
  LET department == Get(row, DEPARTMENT, UNKNOWN)
      parsed == float(Get(row, HOURS_WORKED, <<"0">>))
      hours == IF parsed = None THEN Some(F(0)) ELSE parsed
      rate == TotalPayoutByDepartmentReport_get_pay_rate(row)
  IN IF rate = None THEN payouts
     ELSE Store(payouts, department,
                FAdd(Lookup(payouts, department, F(0)), FMul(hours[1], rate[1])))

\* One pass of the loop over data.
TotalPayout_row(payouts, row) ==
  LET department == Get(row, DEPARTMENT, UNKNOWN)
      hours == float(Get(row, HOURS_WORKED, <<"0">>))
      rate == TotalPayoutByDepartmentReport_get_pay_rate(row)
  IN IF hours = None THEN payouts
     ELSE IF rate = None THEN payouts
     ELSE Store(payouts, department,
                FAdd(Lookup(payouts, department, F(0)), FMul(hours[1], rate[1])))

RECURSIVE TotalPayout_loop(_, _)
TotalPayout_loop(payouts, data) ==
  IF data = <<>> THEN payouts
  ELSE TotalPayout_loop(TotalPayout_row(payouts, Head(data)), Tail(data))

TotalPayoutByDepartmentReport_generate(data) ==
  [total_payout_by_department |-> TotalPayout_loop(<<>>, data)]

(***************************************************************************)
(* REPORTS and main(): report_cls().generate(employees)                    *)
(***************************************************************************)
REPORTS ==
  {"payout", "avg_hourly_rate_by_department", "count_by_department",
   "top_payout", "top_rate", "total_payout_by_department"}

\* report = report_cls(); result = report.generate(employees)
Ran(name, res) ==
  /\ pc = "loaded"
  /\ pc' = "done"
  /\ report' = name
  /\ result' = res
  /\ UNCHANGED <<files, fileIdx, employees, order, idx, max_val, top_row, last>>

GeneratePayout == Ran("payout", PayoutReport_generate(employees))

GenerateAvgHourlyRate ==
  Ran("avg_hourly_rate_by_department",
      AvgHourlyRateByDepartmentReport_generate(employees))

GenerateCount == Ran("count_by_department", CountByDepartmentReport_generate(employees))

GenerateTopPayout == Ran("top_payout", TopPayoutReport_generate(employees))

GenerateTopRate == Ran("top_rate", TopRateReport_generate(employees))

GenerateTotalPayout ==
  Ran("total_payout_by_department", TotalPayoutByDepartmentReport_generate(employees))

Generate ==
  \/ GeneratePayout
  \/ GenerateAvgHourlyRate
  \/ GenerateCount
  \/ GenerateTopPayout
  \/ GenerateTopRate
  \/ GenerateTotalPayout

(***************************************************************************)
(* The two top reports once more, run one row at a time.                   *)
(***************************************************************************)
TopPayoutStart ==
  /\ pc = "loaded"
  /\ pc' = "top_payout_loop"
  /\ idx' = 0
  /\ max_val' = None
  /\ top_row' = None
  /\ UNCHANGED <<files, fileIdx, employees, order, report, result, last>>

TopPayoutRow ==
  /\ pc = "top_payout_loop"
  /\ idx < Len(employees)
  /\ LET st == TopPayoutReport_row([max_payout |-> max_val, top_row |-> top_row],
                                   employees[idx + 1])
     IN /\ max_val' = st.max_payout
        /\ top_row' = st.top_row
  /\ idx' = idx + 1
  /\ UNCHANGED <<pc, files, fileIdx, employees, order, report, result, last>>

TopPayoutReturn ==
  /\ pc = "top_payout_loop"
  /\ idx = Len(employees)
  /\ pc' = "done"
  /\ report' = "top_payout"
  /\ result' = TopPayoutReport_return([max_payout |-> max_val, top_row |-> top_row])
  /\ UNCHANGED <<files, fileIdx, employees, order, idx, max_val, top_row, last>>

TopRateStart ==
  /\ pc = "loaded"
  /\ pc' = "top_rate_loop"
  /\ idx' = 0
  /\ max_val' = None
  /\ top_row' = None
  /\ UNCHANGED <<files, fileIdx, employees, order, report, result, last>>

TopRateRow ==
  /\ pc = "top_rate_loop"
  /\ idx < Len(employees)
  /\ LET st == TopRateReport_row([max_rate |-> max_val, top_row |-> top_row],
                                 employees[idx + 1])
     IN /\ max_val' = st.max_rate
        /\ top_row' = st.top_row
  /\ idx' = idx + 1
  /\ UNCHANGED <<pc, files, fileIdx, employees, order, report, result, last>>

TopRateReturn ==
  /\ pc = "top_rate_loop"
  /\ idx = Len(employees)
  /\ pc' = "done"
  /\ report' = "top_rate"
  /\ result' = TopRateReport_return([max_rate |-> max_val, top_row |-> top_row])
  /\ UNCHANGED <<files, fileIdx, employees, order, idx, max_val, top_row, last>>

(***************************************************************************)
(* Running a report again on the same records.                             *)
(***************************************************************************)
\* The same process calls generate once more.
Again ==
  /\ pc = "done"
  /\ pc' = "loaded"
  /\ last' = Some([report |-> report, result |-> result])
  /\ UNCHANGED <<files, fileIdx, employees, order, report, result, idx, max_val, top_row>>

\* The command is run once more on the same files: a new process, whose
\* string hashes, and so the iteration order of its sets, are seeded anew.
NewProcess ==
  /\ pc = "done"
  /\ pc' = "loaded"
  /\ order' \in Orders
  /\ last' = Some([report |-> report, result |-> result])
  /\ UNCHANGED <<files, fileIdx, employees, report, result, idx, max_val, top_row>>

(***************************************************************************)
(* Inputs.                                                                 *)
(***************************************************************************)
\* All texts of at most n characters.
Texts(n) == UNION {[1..k -> Alphabet] : k \in 0..n}

\* All sequences of at most n elements of S.
SeqUpTo(S, n) == UNION {[1..k -> S] : k \in 0..n}

\* The files of a run with several files: texts with different headers.
FileTexts ==
  { <<>>,
    <<"a">>,
    <<"a", NL, "1", NL, "2">>,
    RATE \o <<",">> \o NAME \o <<NL, "5", ",", "x", NL, "3", NL, " ", NL, "4", ",", " y">>,
    DEPARTMENT \o <<",">> \o SALARY \o <<NL, "D", ",", "7", NL>>,
    <<"b", ",", "b", NL, "8", ",", "9">> }

\* A row with the one column key, or with no column when opt is None.
Field(key, opt) == IF opt = None THEN EmptyDict ELSE [k \in {key} |-> opt[1]]

\* The row with the columns of both; f and g share no column.
Merge(f, g) ==
  [k \in (DOMAIN f) \cup (DOMAIN g) |-> IF k \in DOMAIN f THEN f[k] ELSE g[k]]

\* Rows for the payout reports: a row with every column, and rows with hours
\* absent, numeric or not, and the rate under each alias name, under none, not
\* a number, or under several.
PayRows ==
  { Merge(Field(ID, Some(<<"7">>)),
          Merge(Field(NAME, Some(<<"a">>)),
                Merge(Field(DEPARTMENT, Some(<<"D">>)),
                      Merge(Field(HOURS_WORKED, Some(<<"n", "a", "n">>)),
                            Field(HOURLY_RATE, Some(<<"3">>)))))) }
  \cup
  { Merge(Field(HOURS_WORKED, h), a) :
      h \in {None, Some(<<"2">>), Some(<<"x">>)},
      a \in { EmptyDict,
              Field(HOURLY_RATE, Some(<<"3">>)),
              Field(RATE, Some(<<"3">>)),
              Field(SALARY, Some(<<"3">>)),
              Field(RATE, Some(<<"x">>)),
              Merge(Field(RATE, Some(<<"1", "0">>)), Field(SALARY, Some(<<"3">>))) } }

\* Rows for the department reports: the department absent, empty or named.
DeptRows ==
  { Merge(Field(DEPARTMENT, d), Merge(Field(HOURS_WORKED, h), a)) :
      d \in {None, Some(<<>>), Some(<<"D">>)},
      h \in {Some(<<"2">>), Some(<<"x">>)},
      a \in { Field(RATE, Some(<<"3">>)),
              Field(SALARY, Some(<<"1">>)),
              Field(RATE, Some(<<"x">>)) } }

\* Rows with up to three alias columns, of different or non-numeric values.
AliasRows ==
  { Merge(Field(HOURS_WORKED, Some(<<"2">>)),
          Merge(Field(HOURLY_RATE, hr), Merge(Field(RATE, r), Field(SALARY, s)))) :
      hr \in {None, Some(<<"1">>), Some(<<"x">>)},
      r \in {None, Some(<<"2">>)},
      s \in {None, Some(<<"3">>)} }

\* Rows for the top reports: named rows whose payouts and rates tie, a row
\* of rate NaN, one of hours NaN, one whose alias rate is no number while
\* salary is, one with bad hours.
TopRows ==
  { Merge(Field(NAME, Some(n)), Merge(Field(HOURS_WORKED, Some(h)), Field(RATE, Some(r)))) :
      n \in {<<"a">>, <<"b">>}, h \in {<<"1">>, <<"2">>}, r \in {<<"1">>, <<"2">>} }
  \cup
  { Merge(Field(NAME, Some(<<"c">>)),
          Merge(Field(HOURS_WORKED, Some(<<"1">>)), Field(RATE, Some(<<"n", "a", "n">>)))),
    Merge(Field(NAME, Some(<<"d">>)),
          Merge(Field(HOURS_WORKED, Some(<<"1">>)),
                Merge(Field(RATE, Some(<<"x">>)), Field(SALARY, Some(<<"2">>))))),
    Merge(Field(NAME, Some(<<"f">>)),
          Merge(Field(HOURS_WORKED, Some(<<"n", "a", "n">>)), Field(RATE, Some(<<"1">>)))),
    Merge(Field(NAME, Some(<<"e">>)),
          Merge(Field(HOURS_WORKED, Some(<<"x">>)), Field(RATE, Some(<<"2">>)))) }

\* What the report side of the state is before any report has run.
InitRun ==
  /\ order \in Orders
  /\ report = "none"
  /\ result = None
  /\ idx = 0
  /\ max_val = None
  /\ top_row = None
  /\ last = None

\* parse_csv on one file, every short text.  parse_csv never reads
\* PAY_RATE_KEYS, so one order stands for all.
InitParse ==
  /\ pc = "load"
  /\ files \in {<<t>> : t \in Texts(MaxTextLen)}
  /\ fileIdx = 0
  /\ employees = <<>>
  /\ InitRun
  /\ order = <<HOURLY_RATE, RATE, SALARY>>

\* main() on several files.
InitMain ==
  /\ pc = "load"
  /\ files \in SeqUpTo(FileTexts, MaxFiles)
  /\ fileIdx = 0
  /\ employees = <<>>
  /\ InitRun

\* generate on a list of rows.
InitRows(Rows, n) ==
  /\ pc = "loaded"
  /\ files = <<>>
  /\ fileIdx = 0
  /\ employees \in SeqUpTo(Rows, n)
  /\ InitRun

InitPay == InitRows(PayRows, MaxRecords)

InitDept == InitRows(DeptRows, MaxRecords)

InitAlias == InitRows(AliasRows, MaxAliasRecords)

InitTop == InitRows(TopRows, MaxTopRecords)

NextLoad == LoadFile \/ LoadReturn

NextMain == LoadFile \/ LoadReturn \/ Generate

NextAlias == Generate \/ Again \/ NewProcess

NextTop ==
  \/ TopPayoutStart
  \/ TopPayoutRow
  \/ TopPayoutReturn
  \/ TopRateStart
  \/ TopRateRow
  \/ TopRateReturn

SpecParse == InitParse /\ [][NextLoad]_vars

SpecMain == InitMain /\ [][NextMain]_vars

SpecPay == InitPay /\ [][Generate]_vars

SpecDept == InitDept /\ [][Generate]_vars

SpecAlias == InitAlias /\ [][NextAlias]_vars

SpecTop == InitTop /\ [][NextTop]_vars

(***************************************************************************)
(* What the claims speak of, stated without the code's loops.              *)
(***************************************************************************)
\* The positions of character c in s.
Positions(s, c) == {p \in 1..Len(s) : s[p] = c}

\* The k-th smallest element of a set of numbers.
Nth(S, k) == CHOOSE p \in S : Cardinality({q \in S : q <= p}) = k

\* Piece k of s when s is cut at every c.
Piece(s, c, k) ==
  LET P == Positions(s, c)
      lo == IF k = 1 THEN 1 ELSE Nth(P, k - 1) + 1
      hi == IF k > Cardinality(P) THEN Len(s) ELSE Nth(P, k) - 1
  IN SubSeq(s, lo, hi)

\* A text has one line per line break, and one more when text follows the last.
NumLines(text) ==
  Cardinality(Positions(text, NL))
    + (IF text # <<>> /\ text[Len(text)] # NL THEN 1 ELSE 0)

LineAt(text, k) == Piece(text, NL, k)

NumFields(line) == Cardinality(Positions(line, ",")) + 1

\* s without the blanks before its first and after its last other character.
Trimmed(s) ==
  LET ink == {p \in 1..Len(s) : ~IsSpace(s[p])}
  IN IF ink = {} THEN <<>>
     ELSE SubSeq(s, CHOOSE p \in ink : \A q \in ink : p <= q,
                    CHOOSE p \in ink : \A q \in ink : q <= p)

FieldAt(line, j) == Trimmed(Piece(line, ",", j))

\* The data lines of text that give a record: not blank, as many fields as
\* the header.
GoodLines(text) ==
  {k \in 2..NumLines(text) :
     /\ Trimmed(LineAt(text, k)) # <<>>
     /\ NumFields(LineAt(text, k)) = NumFields(LineAt(text, 1))}

\* Record rec is what line k of text gives: its keys are the header's names,
\* and a name holds the field at the name's position (at its last position
\* when the header repeats the name).
IsRecordOf(rec, text, k) ==
  LET h == LineAt(text, 1)
      m == NumFields(h)
  IN /\ DOMAIN rec = {FieldAt(h, j) : j \in 1..m}
     /\ \A j \in 1..m :
          (\A j2 \in (j + 1)..m : FieldAt(h, j2) # FieldAt(h, j))
            => rec[FieldAt(h, j)] = FieldAt(LineAt(text, k), j)

\* C1: parse_csv takes the first line as the header and returns, in line
\* order, exactly one record for each later line that is not blank and has as
\* many comma-separated fields as the header; blank lines and lines of another
\* field count give no record; each record maps the trimmed header names
\* positionally to the trimmed fields of its line.
C1_ParseCsv ==
  (pc = "loaded") =>
    LET text == files[1]
        good == GoodLines(text)
    IN /\ Len(employees) = Cardinality(good)
       /\ \A r \in 1..Len(employees) : IsRecordOf(employees[r], text, Nth(good, r))

\* C1 witness: a parse that skipped a blank line, dropped a line of another
\* field count and kept a record.
C1_Witness ==
  /\ pc = "loaded"
  /\ Len(employees) >= 1
  /\ \E k \in 2..NumLines(files[1]) : Trimmed(LineAt(files[1], k)) = <<>>
  /\ \E k \in 2..NumLines(files[1]) :
       /\ Trimmed(LineAt(files[1], k)) # <<>>
       /\ NumFields(LineAt(files[1], k)) # NumFields(LineAt(files[1], 1))

\* The header names of a file's text.
HeaderNames(text) ==
  {FieldAt(LineAt(text, 1), j) : j \in 1..NumFields(LineAt(text, 1))}

\* The number of records file k gives.
RecordsIn(k) == Cardinality(GoodLines(files[k]))

RECURSIVE RecordsBefore(_)
\* The number of records the files before file k give.
RecordsBefore(k) == IF k = 1 THEN 0 ELSE RecordsBefore(k - 1) + RecordsIn(k - 1)

\* C7: load_employees returns the concatenation, in argument order, of
\* parse_csv of each file: the records of an earlier file come before those of
\* a later one, in their order within the file, and the keys of each record
\* are exactly the header names of its own file.
C7_LoadEmployees ==
  /\ Len(employees) = RecordsBefore(fileIdx + 1)
  /\ \A k \in 1..fileIdx : \A r \in 1..RecordsIn(k) :
       /\ employees[RecordsBefore(k) + r] = parse_csv(files[k])[r]
       /\ DOMAIN employees[RecordsBefore(k) + r] = HeaderNames(files[k])

\* C7 witness: two files were loaded, both gave records, and the later one
\* has a column the earlier one lacks.
C7_Witness ==
  /\ pc = "loaded"
  /\ \E a, b \in 1..Len(files) :
       /\ a < b
       /\ RecordsIn(a) >= 1
       /\ RecordsIn(b) >= 1
       /\ HeaderNames(files[b]) \ HeaderNames(files[a]) # {}
       /\ parse_csv(files[a]) # parse_csv(files[b])

\* The documented result of each report on no record.
EmptyInputResult(name) ==
  CASE name = "payout" -> [payouts |-> <<>>]
    [] name = "avg_hourly_rate_by_department" ->
         [average_hourly_rate_by_department |-> <<>>]
    [] name = "count_by_department" -> [count_by_department |-> <<>>]
    [] name = "top_payout" -> [top_payout |-> None]
    [] name = "top_rate" -> [top_rate |-> None]
    [] name = "total_payout_by_department" -> [total_payout_by_department |-> <<>>]

\* C8: parse_csv of the empty text returns the empty list, and on the empty
\* list every report returns its documented empty-input result.
C8_EmptyInput ==
  /\ (files = <<<<>>>> /\ fileIdx = 1) => employees = <<>>
  /\ (pc = "done" /\ employees = <<>>) => result = EmptyInputResult(report)

\* C8 witness: the one empty file was parsed and the top payout report ran on
\* its records.
C8_Witness ==
  /\ pc = "done"
  /\ files = <<<<>>>>
  /\ employees = <<>>
  /\ report = "top_payout"

\* The alias columns of a row.
AliasColumns(row) == {HOURLY_RATE, RATE, SALARY} \cap DOMAIN row

\* The alias column a rate lookup consults: the first one, in the order in
\* which this process iterates the alias set, that the row holds.
Consulted(row) ==
  order[CHOOSE k \in DOMAIN order :
          /\ order[k] \in DOMAIN row
          /\ \A j \in DOMAIN order : order[j] \in DOMAIN row => k <= j]

\* The rate of a row as the payout and average reports resolve it.
ResolvedRate(row) ==
  IF AliasColumns(row) = {} THEN None ELSE float(row[Consulted(row)])

\* The hours of a row: 0 when the column is absent, None when its value is no
\* number.
HoursOf(row) ==
  IF HOURS_WORKED \in DOMAIN row THEN float(row[HOURS_WORKED]) ELSE Some(F(0))

\* The row with alias column `from` renamed `to`.
Renamed(row, from, to) ==
  [k \in ((DOMAIN row) \ {from}) \cup {to} |-> IF k = to THEN row[from] ELSE row[k]]

\* The payouts of the entries the payout report gives for a list of rows.
PayoutsOf(data) ==
  LET L == PayoutReport_generate(data).payouts
  IN [r \in 1..Len(L) |-> L[r].payout]

\* C2: PayoutReport.generate returns {payouts: L} where L has exactly one
\* entry, in input order, for each record whose hours_worked is absent or
\* numeric and whose rate resolves from an alias column; the entry's payout is
\* hours x rate, with hours 0 when hours_worked is absent; and a record yields
\* the same payout whichever of the three alias names carries its rate.
C2_Payout ==
  (pc = "done" /\ report = "payout") =>
    LET L == result.payouts
        Q == {p \in 1..Len(employees) :
                HoursOf(employees[p]) # None /\ ResolvedRate(employees[p]) # None}
    IN /\ Len(L) = Cardinality(Q)
       /\ \A r \in 1..Len(L) :
            LET row == employees[Nth(Q, r)]
            IN /\ L[r].hours_worked = HoursOf(row)[1]
               /\ L[r].rate = ResolvedRate(row)[1]
               /\ L[r].payout = FMul(HoursOf(row)[1], ResolvedRate(row)[1])
               /\ L[r].id = GetOpt(row, ID)
               /\ L[r].name = GetOpt(row, NAME)
               /\ L[r].department = GetOpt(row, DEPARTMENT)
       /\ \A p \in 1..Len(employees) :
            \A from \in AliasColumns(employees[p]) :
              AliasColumns(employees[p]) = {from} =>
                \A to \in {HOURLY_RATE, RATE, SALARY} :
                  PayoutsOf(<<Renamed(employees[p], from, to)>>)
                    = PayoutsOf(<<employees[p]>>)

\* C2 witness: the payout report ran on a row without hours_worked whose rate
\* is under salary and on a row it drops, and gave an entry of payout 0.
C2_Witness ==
  /\ pc = "done"
  /\ report = "payout"
  /\ Len(employees) = 2
  /\ Len(result.payouts) = 1
  /\ result.payouts[1].payout = F(0)
  /\ \E p \in 1..2 :
       /\ HOURS_WORKED \notin DOMAIN employees[p]
       /\ AliasColumns(employees[p]) = {SALARY}

\* The list without its p-th element.
Without(data, p) == SubSeq(data, 1, p - 1) \o SubSeq(data, p + 1, Len(data))

\* The row without column key.
WithoutColumn(row, key) == [k \in (DOMAIN row) \ {key} |-> row[k]]

\* The key a row is grouped under.
DeptKey(row) == IF DEPARTMENT \in DOMAIN row THEN row[DEPARTMENT] ELSE UNKNOWN

\* hours_worked is present and no number.
BadHours(row) == HOURS_WORKED \in DOMAIN row /\ float(row[HOURS_WORKED]) = None

\* C3: a record whose hours_worked is present but not numeric is excluded by
\* Payout, TopPayout and TotalPayoutByDepartment (their results are those of the
\* input without the record), while CountByDepartment still counts it under
\* its department.
C3_BadHours ==
  (pc = "done") =>
    \A p \in 1..Len(employees) :
      BadHours(employees[p]) =>
        LET rest == Without(employees, p)
            dept == DeptKey(employees[p])
        IN /\ report = "payout" => result = PayoutReport_generate(rest)
           /\ report = "top_payout" => result = TopPayoutReport_generate(rest)
           /\ report = "total_payout_by_department" =>
                result = TotalPayoutByDepartmentReport_generate(rest)
           /\ report = "count_by_department" =>
                Lookup(result.count_by_department, dept, 0)
                  = 1 + Lookup(CountByDepartmentReport_generate(rest).count_by_department,
                               dept, 0)

\* C3 witness: the department totals were computed from a record with bad
\* hours and a record that counts, of the same department.
C3_Witness ==
  /\ pc = "done"
  /\ report = "total_payout_by_department"
  /\ Len(result.total_payout_by_department) = 1
  /\ \E p, q \in 1..Len(employees) :
       /\ BadHours(employees[p])
       /\ ~BadHours(employees[q])
       /\ DeptKey(employees[p]) = DeptKey(employees[q])

RECURSIVE SumVals(_)
\* The sum of the values of a department -> int dict.
SumVals(d) == IF d = <<>> THEN 0 ELSE Head(d).val + SumVals(Tail(d))

\* C9: CountByDepartment counts every record exactly once: the count of key k
\* is the number of records whose department is k, a record without the
\* department field counting under "unknown" and one whose department is the
\* empty string under the empty string; so the counts sum to the number of
\* records.
C9_CountByDepartment ==
  (pc = "done" /\ report = "count_by_department") =>
    LET c == result.count_by_department
    IN /\ \A i, j \in 1..Len(c) : c[i].key = c[j].key => i = j
       /\ {c[i].key : i \in 1..Len(c)} = {DeptKey(employees[p]) : p \in 1..Len(employees)}
       /\ \A i \in 1..Len(c) :
            c[i].val = Cardinality({p \in 1..Len(employees) :
                                      DeptKey(employees[p]) = c[i].key})
       /\ \A p \in 1..Len(employees) :
            /\ DEPARTMENT \notin DOMAIN employees[p] => HasKey(c, UNKNOWN)
            /\ Get(employees[p], DEPARTMENT, UNKNOWN) = <<>> => HasKey(c, <<>>)
       /\ SumVals(c) = Len(employees)

\* C9 witness: the count ran on a record without department and on a record
\* whose department is the empty string, one of them with bad hours, and keyed
\* them apart.
C9_Witness ==
  /\ pc = "done"
  /\ report = "count_by_department"
  /\ Len(employees) = 2
  /\ \E p, q \in 1..2 :
       /\ DEPARTMENT \notin DOMAIN employees[p]
       /\ BadHours(employees[p])
       /\ DEPARTMENT \in DOMAIN employees[q]
       /\ employees[q][DEPARTMENT] = <<>>
  /\ Lookup(result.count_by_department, UNKNOWN, 0) = 1
  /\ Lookup(result.count_by_department, <<>>, 0) = 1

\* The records of department key k whose rate resolves.
Rated(data, k) ==
  {p \in 1..Len(data) : DeptKey(data[p]) = k /\ ResolvedRate(data[p]) # None}

RECURSIVE SumRates(_, _)
\* The sum of the rates of the records at the positions in S.
SumRates(data, S) ==
  IF S = {} THEN F(0)
  ELSE LET p == CHOOSE x \in S : \A y \in S : y <= x
       IN FAdd(SumRates(data, S \ {p}), ResolvedRate(data[p])[1])

\* C10: AvgHourlyRateByDepartment returns exactly one entry per department key
\* with a record whose rate resolves, in the order of the first such records;
\* employees is the number of those records and average_rate the sum of their
\* rates divided by it, so the divisor is at least 1; hours_worked is never
\* consulted.
C10_AvgHourlyRate ==
  (pc = "done" /\ report = "avg_hourly_rate_by_department") =>
    LET L == result.average_hourly_rate_by_department
        First(k) == CHOOSE p \in Rated(employees, k) :
                      \A q \in Rated(employees, k) : p <= q
    IN /\ {L[i].department : i \in 1..Len(L)}
            = {DeptKey(employees[p]) : p \in {q \in 1..Len(employees) :
                                               ResolvedRate(employees[q]) # None}}
       /\ \A i, j \in 1..Len(L) :
            i < j => First(L[i].department) < First(L[j].department)
       /\ \A i \in 1..Len(L) :
            /\ L[i].employees = Cardinality(Rated(employees, L[i].department))
            /\ L[i].employees >= 1
            /\ L[i].average_rate # ZeroDivisionError
            /\ L[i].average_rate
                 = FDiv(SumRates(employees, Rated(employees, L[i].department)),
                        L[i].employees)
       /\ result = AvgHourlyRateByDepartmentReport_generate(
                     [p \in 1..Len(employees) |->
                        WithoutColumn(employees[p], HOURS_WORKED)])

\* C10 witness: a record with bad hours whose rate resolves was averaged, and
\* the department of a record without a rate was left out.
C10_Witness ==
  /\ pc = "done"
  /\ report = "avg_hourly_rate_by_department"
  /\ Len(result.average_hourly_rate_by_department) = 1
  /\ result.average_hourly_rate_by_department[1].employees = 1
  /\ \E p, q \in 1..Len(employees) :
       /\ BadHours(employees[p])
       /\ ResolvedRate(employees[p]) # None
       /\ ResolvedRate(employees[q]) = None
       /\ DeptKey(employees[q]) # DeptKey(employees[p])

\* The alias columns of a row whose value is a number.
NumericAliases(row) == {k \in AliasColumns(row) : float(row[k]) # None}

\* The rate of a row as the top and total reports resolve it: that of the
\* first alias column, in the process's order, whose value is a number.
ScannedRate(row) ==
  IF NumericAliases(row) = {} THEN None
  ELSE float(row[order[CHOOSE k \in DOMAIN order :
                         /\ order[k] \in NumericAliases(row)
                         /\ \A j \in DOMAIN order :
                              order[j] \in NumericAliases(row) => k <= j]])

\* The payout of a row for the top payout report, None when it does not
\* qualify.
PayoutValue(row) ==
  IF HoursOf(row) = None \/ ScannedRate(row) = None THEN None
  ELSE Some(FMul(HoursOf(row)[1], ScannedRate(row)[1]))

\* Among the first n rows, h is the earliest qualifying row whose value is the
\* maximum of the qualifying rows' values (it is >= every other one); val
\* gives each row's value.
IsEarliestMax(val(_), n, h) ==
  LET Q == {p \in 1..n : val(employees[p]) # None}
  IN /\ h \in Q
     /\ \A q \in Q \ {h} : FGe(val(employees[h])[1], val(employees[q])[1])
     /\ \A q \in Q : q < h => val(employees[q]) # val(employees[h])

\* The loop's holder after n rows is the earliest row of maximal value, if any
\* row qualifies, and there is no holder otherwise.
HolderIsEarliestMax(val(_), n) ==
  IF \A p \in 1..n : val(employees[p]) = None
  THEN top_row = None /\ max_val = None
  ELSE \E h \in 1..n :
         /\ IsEarliestMax(val, n, h)
         /\ top_row = Some(employees[h])
         /\ max_val = val(employees[h])

\* What the finished report returned is the entry of the earliest row of
\* maximal value, if any row qualifies, and None otherwise.
ReportedIsEarliestMax(val(_), reported, field) ==
  IF \A p \in 1..Len(employees) : val(employees[p]) = None
  THEN reported = None
  ELSE \E h \in 1..Len(employees) :
         /\ IsEarliestMax(val, Len(employees), h)
         /\ reported # None
         /\ reported[1].name = GetOpt(employees[h], NAME)
         /\ reported[1].department = GetOpt(employees[h], DEPARTMENT)
         /\ reported[1][field] = val(employees[h])[1]

\* None of the first n rows has the value NaN.
NoNaN(val(_), n) ==
  \A p \in 1..n : val(employees[p]) # None => ~val(employees[p])[1].nan

RECURSIVE SumPayouts(_)
\* The sum of the payouts of a list of payout entries.
SumPayouts(L) == IF L = <<>> THEN F(0) ELSE FAdd(Head(L).payout, SumPayouts(Tail(L)))

RECURSIVE SumTotals(_)
\* The sum of the values of a department -> total dict.
SumTotals(d) == IF d = <<>> THEN F(0) ELSE FAdd(Head(d).val, SumTotals(Tail(d)))

\* C5: the per-record requirement of TopPayout and of TotalPayoutByDepartment
\* is that of Payout: a record counts for them exactly when it has an entry in
\* Payout's list, so the department totals sum to the sum of the payout
\* entries, and top_payout is None exactly when payouts is empty; also for
\* records with several alias columns, one of them not numeric.
C5_SameRequirement ==
  (pc = "done") =>
    LET payouts == PayoutReport_generate(employees).payouts
    IN /\ report = "top_payout" => (result.top_payout = None <=> payouts = <<>>)
       /\ report = "total_payout_by_department" =>
            /\ SumTotals(result.total_payout_by_department) = SumPayouts(payouts)
            /\ \A p \in 1..Len(employees) :
                 (PayoutReport_generate(<<employees[p]>>).payouts # <<>>)
                   <=> (TotalPayoutByDepartmentReport_generate(<<employees[p]>>)
                          .total_payout_by_department # <<>>)

\* C6: generate is a pure function of the record list: two runs of the same
\* report on the same records return equal results, also for records with two
\* or three alias columns.
C6_PureGenerate ==
  (pc = "done" /\ last # None /\ last[1].report = report) => result = last[1].result

====
